---- MODULE Spec2Model ----
(***************************************************************************)
(* Model of the CSV importer dialog (client/src/components/CSVImporter.tsx) *)
(* of rodrigopasa/Morningstar: the React state of the component, its event *)
(* handlers, the FileReader callbacks in flight, and the string functions  *)
(* the handlers use (line splitting, delimiter detection, column guessing, *)
(* phone normalisation).                                                   *)
(*                                                                         *)
(* Text is a sequence of characters.  A character is a one-letter string;  *)
(* the characters that have no printable letter are the tokens             *)
(*   "bsl" backslash   "lf" line feed   "cr" carriage return   "tab" tab   *)
(*   "sp" space        "quote" double quote   "bom" U+FEFF                 *)
(* JavaScript's undefined is the value UNDEF.                              *)
(***************************************************************************)
EXTENDS Integers, Sequences, FiniteSets, Bags, TLC

VARIABLES
    open,          \* useState open (line 47)
    file,          \* useState file (line 48): index into Files, or NoFile
    contacts,      \* useState contacts (line 49)
    nameColumn,    \* useState nameColumn (line 50)
    phoneColumn,   \* useState phoneColumn (line 51)
    columns,       \* useState columns (line 52)
    isProcessing,  \* useState isProcessing (line 53)
    previewData,   \* useState previewData (line 54)
    step,          \* useState step (line 55)
    inputValue,    \* the file held by the <input type=file> element (fileInputRef)
    tab,           \* the active tab of the uncontrolled <Tabs> (line 611)
    readers,       \* the FileReader reads in flight (a bag), each with the closure
                   \* its callbacks run in
    out,           \* what the last handler run sent out: the title of its toast()
                   \* and the argument of its onComplete call
    batchSource,   \* history: which handler wrote the current contacts batch
    hIn, hOut, hpc \* harness for the pure functions: input, result, position

vars == <<open, file, contacts, nameColumn, phoneColumn, columns, isProcessing,
          previewData, step, inputValue, tab, readers, out, batchSource,
          hIn, hOut, hpc>>

appVars == <<open, file, contacts, nameColumn, phoneColumn, columns, isProcessing,
             previewData, step, inputValue, tab, readers, out, batchSource>>

harnessVars == <<hIn, hOut, hpc>>

-----------------------------------------------------------------------------
(* Characters and JavaScript string primitives *)

UNDEF == <<"undefined">>

Falsy(s) == s = <<>> \/ s = UNDEF

Digits == {"0", "1", "2", "3", "4", "5", "6", "7", "8", "9"}

\* ECMAScript WhiteSpace and LineTerminator, as String.prototype.trim removes them
WhiteSpace == {"sp", "tab", "lf", "cr", "bom"}

UpperCase == <<"A","B","C","D","E","F","G","H","I","J","K","L","M",
               "N","O","P","Q","R","S","T","U","V","W","X","Y","Z">>

LowerCase == <<"a","b","c","d","e","f","g","h","i","j","k","l","m",
               "n","o","p","q","r","s","t","u","v","w","x","y","z">>

toLowerCase(s) ==
    [i \in 1..Len(s) |->
        IF \E k \in 1..26 : UpperCase[k] = s[i]
        THEN LowerCase[CHOOSE k \in 1..26 : UpperCase[k] = s[i]]
        ELSE s[i]]

trim(s) ==
    LET keep == {i \in 1..Len(s) : s[i] \notin WhiteSpace}
    IN  IF keep = {} THEN <<>>
        ELSE SubSeq(s, CHOOSE i \in keep : \A j \in keep : i <= j,
                       CHOOSE i \in keep : \A j \in keep : i >= j)

startsWith(s, p) == Len(s) >= Len(p) /\ SubSeq(s, 1, Len(p)) = p

\* the positions at which p occurs in s
Occurrences(s, p) ==
    {i \in 1..(Len(s) - Len(p) + 1) : SubSeq(s, i, i + Len(p) - 1) = p}

includes(s, p) == Occurrences(s, p) # {}

Min(S) == CHOOSE x \in S : \A y \in S : x <= y

Max2(a, b) == IF a >= b THEN a ELSE b

\* String.prototype.split(sep) for a non-empty string separator
RECURSIVE split(_, _)
split(s, sep) ==
    LET occ == Occurrences(s, sep)
    IN  IF occ = {} THEN <<s>>
        ELSE LET i == Min(occ)
             IN  <<SubSeq(s, 1, i - 1)>> \o split(SubSeq(s, i + Len(sep), Len(s)), sep)

\* replace(/^"|"$/g, ''): one leading and one trailing double quote are removed
unquote(s) ==
    LET s1 == IF Len(s) > 0 /\ s[1] = "quote" THEN Tail(s) ELSE s
    IN  IF Len(s1) > 0 /\ s1[Len(s1)] = "quote" THEN SubSeq(s1, 1, Len(s1) - 1) ELSE s1

\* cell => cell.trim().replace(/^"|"$/g, '')
cleanCell(c) == unquote(trim(c))

cleanCells(cells) == [i \in 1..Len(cells) |-> cleanCell(cells[i])]

\* array[i] with JavaScript's 0-based index i: undefined outside the array
At(arr, i) == IF i >= 0 /\ i < Len(arr) THEN arr[i + 1] ELSE UNDEF

\* Array.prototype.indexOf / findIndex results: 0-based, -1 when absent
indexOf(arr, x) ==
    IF \E i \in 1..Len(arr) : arr[i] = x
    THEN Min({i \in 1..Len(arr) : arr[i] = x}) - 1
    ELSE -1

-----------------------------------------------------------------------------
(* Line splitting: csv.split(/\\r?\\n/).filter(line => line.trim().length > 0) *)

\* Length of the match of the regular expression /\\r?\\n/ at position i of s.
\* In the regex literal, \\ is one literal backslash: the expression matches the
\* characters  backslash, an optional letter r, backslash, letter n.
lineBreakAt(s, i) ==
    IF i + 3 <= Len(s) /\ SubSeq(s, i, i + 3) = <<"bsl", "r", "bsl", "n">> THEN 4
    ELSE IF i + 2 <= Len(s) /\ SubSeq(s, i, i + 2) = <<"bsl", "bsl", "n">> THEN 3
    ELSE 0

RECURSIVE splitLines(_)
splitLines(s) ==
    LET occ == {i \in 1..Len(s) : lineBreakAt(s, i) > 0}
    IN  IF occ = {} THEN <<s>>
        ELSE LET i == Min(occ)
             IN  <<SubSeq(s, 1, i - 1)>>
                     \o splitLines(SubSeq(s, i + lineBreakAt(s, i), Len(s)))

nonEmptyLines(s) == SelectSeq(splitLines(s), LAMBDA line : Len(trim(line)) > 0)

-----------------------------------------------------------------------------
(* detectDelimiter *)

\* const delimiters = [',', ';', '\\t']: the third candidate is the two-character
\* string backslash + t
delimiters == << <<",">>, <<";">>, <<"bsl", "t">> >>

\* (headerLine.match(new RegExp(delimiter, 'g')) || []).length: as a regular
\* expression, backslash + t matches the tab character
matchCount(headerLine, delimiter) ==
    LET ch == IF delimiter = <<"bsl", "t">> THEN "tab" ELSE delimiter[1]
    IN  Cardinality({i \in 1..Len(headerLine) : headerLine[i] = ch})

RECURSIVE detectLoop(_, _, _, _)
detectLoop(headerLine, k, bestDelimiter, maxCount) ==
    IF k > Len(delimiters) THEN bestDelimiter
    ELSE LET count == matchCount(headerLine, delimiters[k])
         IN  IF count > maxCount
             THEN detectLoop(headerLine, k + 1, delimiters[k], count)
             ELSE detectLoop(headerLine, k + 1, bestDelimiter, maxCount)

detectDelimiter(headerLine) == detectLoop(headerLine, 1, <<",">>, 0)

-----------------------------------------------------------------------------
(* Column auto-detection of processCSV *)

L_nome     == <<"n","o","m","e">>
L_name     == <<"n","a","m","e">>
L_cliente  == <<"c","l","i","e","n","t","e">>
L_contato  == <<"c","o","n","t","a","t","o">>
L_telefone == <<"t","e","l","e","f","o","n","e">>
L_phone    == <<"p","h","o","n","e">>
L_celular  == <<"c","e","l","u","l","a","r">>
L_whatsapp == <<"w","h","a","t","s","a","p","p">>
L_numero   == <<"n","u","m","e","r","o">>
L_number   == <<"n","u","m","b","e","r">>
L_tel      == <<"t","e","l">>

\* const normalized = h.toLowerCase().trim()
normalized(h) == trim(toLowerCase(h))

\* the predicate of headers.findIndex for the name column (lines 131-139)
isNameHeader(h) ==
    LET n == normalized(h)
    IN  \/ n = L_nome
        \/ n = L_name
        \/ n = L_cliente
        \/ n = L_contato
        \/ includes(n, L_nome)
        \/ includes(n, L_name)

\* every phone label accepted as a substring
isPhoneHeaderAnyPart(h) ==
    LET n == normalized(h)
    IN  \E l \in {L_telefone, L_phone, L_celular, L_whatsapp, L_numero, L_number, L_tel} :
            includes(n, l)

\* the predicate of headers.findIndex for the phone column (lines 141-154)
isPhoneHeader(h) ==
    LET n == normalized(h)
    IN  \/ n = L_telefone
        \/ n = L_phone
        \/ n = L_celular
        \/ n = L_whatsapp
        \/ n = L_numero
        \/ n = L_number
        \/ n = L_tel
        \/ includes(n, L_telefone)
        \/ includes(n, L_phone)
        \/ includes(n, L_celular)
        \/ includes(n, L_whatsapp)

\* Array.prototype.findIndex: first index satisfying the predicate, else -1
nameColumnIndex(headers) ==
    IF \E i \in 1..Len(headers) : isNameHeader(headers[i])
    THEN Min({i \in 1..Len(headers) : isNameHeader(headers[i])}) - 1
    ELSE -1

phoneColumnIndex(headers) ==
    IF \E i \in 1..Len(headers) : isPhoneHeader(headers[i])
    THEN Min({i \in 1..Len(headers) : isPhoneHeader(headers[i])}) - 1
    ELSE -1

-----------------------------------------------------------------------------
(* The parse of processCSV's reader.onload, once every chunk has been pushed *)

BomLiteral == <<"bsl", "u", "f", "e", "f", "f">>

\* lines 115-185.  ok = FALSE is the throw of line 118; the column values are
\* the ones the setNameColumn / setPhoneColumn calls of lines 175-185 store.
parseCSV(csv) ==
    LET lines0 == nonEmptyLines(csv)
    IN  IF Len(lines0) = 0
        THEN [ok |-> FALSE, headers |-> <<>>, preview |-> <<>>,
              nameColumn |-> <<>>, phoneColumn |-> <<>>]
        ELSE
        LET headerLine == IF startsWith(lines0[1], BomLiteral)
                          THEN Tail(lines0[1]) ELSE lines0[1]
            lines      == [lines0 EXCEPT ![1] = headerLine]
            delimiter  == detectDelimiter(headerLine)
            headers    == cleanCells(split(headerLine, delimiter))
            ni         == nameColumnIndex(headers)
            pi         == phoneColumnIndex(headers)
            nrows      == IF Len(lines) < 5 THEN Len(lines) ELSE 5
        IN  [ok          |-> TRUE,
             headers     |-> headers,
             preview     |-> [i \in 1..nrows |-> cleanCells(split(lines[i], delimiter))],
             nameColumn  |-> IF ni # -1 THEN At(headers, ni) ELSE At(headers, 0),
             phoneColumn |-> IF pi # -1 THEN At(headers, pi) ELSE At(headers, 1)]

-----------------------------------------------------------------------------
(* The mapping of validateAndMapContacts' reader.onload *)

\* phoneNumber.replace(/\\D/g, ''): the expression matches a backslash followed
\* by the letter D, so that is what is removed
RECURSIVE stripPhone(_)
stripPhone(s) ==
    LET occ == Occurrences(s, <<"bsl", "D">>)
    IN  IF occ = {} THEN s
        ELSE LET i == Min(occ)
             IN  SubSeq(s, 1, i - 1) \o stripPhone(SubSeq(s, i + 2, Len(s)))

CountryCode == <<"5", "5">>

\* the country code added only below 12 characters
addCountryCodeBelow12(phoneNumber) ==
    IF Len(phoneNumber) < 12 /\ ~startsWith(phoneNumber, CountryCode)
    THEN CountryCode \o phoneNumber
    ELSE phoneNumber

\* lines 292-294
addCountryCode(phoneNumber) ==
    IF Len(phoneNumber) <= 12 /\ ~startsWith(phoneNumber, CountryCode)
    THEN CountryCode \o phoneNumber
    ELSE phoneNumber

\* line 297
fileNumberValid(phoneNumber) == Len(phoneNumber) >= 12

\* lines 285-303: the record pushed for a row with enough fields
mapRow(values, nameIndex, phoneIndex) ==
    LET phoneNumber == addCountryCode(stripPhone(At(values, phoneIndex)))
    IN  [name        |-> At(values, nameIndex),
         phoneNumber |-> phoneNumber,
         isValid     |-> fileNumberValid(phoneNumber)]

\* the mapping given up only when both columns are missing
columnMissingBoth(nameIndex, phoneIndex) == nameIndex = -1 /\ phoneIndex = -1

\* line 266
columnMissing(nameIndex, phoneIndex) == nameIndex = -1 \/ phoneIndex = -1

\* the row kept when it has exactly as many fields as the larger index
rowTooShortStrict(values, nameIndex, phoneIndex) ==
    Len(values) < Max2(nameIndex, phoneIndex)

\* line 280
rowTooShort(values, nameIndex, phoneIndex) ==
    Len(values) <= Max2(nameIndex, phoneIndex)

\* lines 246-304.  ok = FALSE is an exception caught at line 310: lines[0] is
\* undefined for a text without non-empty lines (line 252 throws), a selected
\* column is not a header (line 267), or a method is called on an undefined
\* phone field (line 289).
mapContacts(csv, nameCol, phoneCol) ==
    LET lines == nonEmptyLines(csv)
        failed == [ok |-> FALSE, contacts |-> <<>>]
    IN  IF Len(lines) = 0 THEN failed
        ELSE
        LET delimiter == detectDelimiter(lines[1])
            headers0  == cleanCells(split(lines[1], delimiter))
            headers   == IF startsWith(headers0[1], BomLiteral)
                         THEN [headers0 EXCEPT ![1] = Tail(headers0[1])]
                         ELSE headers0
            nameIndex  == indexOf(headers, nameCol)
            phoneIndex == indexOf(headers, phoneCol)
            rows   == [i \in 1..(Len(lines) - 1) |->
                          cleanCells(split(lines[i + 1], delimiter))]
            kept   == SelectSeq(rows, LAMBDA v : ~rowTooShort(v, nameIndex, phoneIndex))
        IN  IF columnMissing(nameIndex, phoneIndex) THEN failed
            ELSE IF \E i \in 1..Len(kept) : At(kept[i], phoneIndex) = UNDEF THEN failed
            ELSE [ok |-> TRUE,
                  contacts |-> [i \in 1..Len(kept) |-> mapRow(kept[i], nameIndex, phoneIndex)]]

-----------------------------------------------------------------------------
(* The direct-entry textarea's onChange (lines 630-640) *)

\* replace(/\D/g, ''): every character that is not a digit is removed
digitsOnly(s) == SelectSeq(s, LAMBDA c : c \in Digits)

\* line 638
directPrefix(phoneNumber) ==
    IF startsWith(phoneNumber, CountryCode) THEN phoneNumber
    ELSE CountryCode \o phoneNumber

\* the length tested after the country code is added
directNumberValidPrefixed(phoneNumber) == Len(directPrefix(phoneNumber)) >= 10

\* line 639
directNumberValid(phoneNumber) == Len(phoneNumber) >= 10

mapDirectInput(text) ==
    LET raw     == split(text, <<"lf">>)
        cleaned == [i \in 1..Len(raw) |-> digitsOnly(trim(raw[i]))]
        numbers == SelectSeq(cleaned, LAMBDA n : Len(n) > 0)
    IN  [i \in 1..Len(numbers) |->
            [name        |-> numbers[i],
             phoneNumber |-> directPrefix(numbers[i]),
             isValid     |-> directNumberValid(numbers[i])]]

\* the batch forwarded unfiltered
allContacts(cs) == cs

\* contacts.filter(c => c.isValid) (lines 344, 651)
RECURSIVE validContacts(_)
validContacts(cs) ==
    IF cs = <<>> THEN <<>>
    ELSE IF Head(cs).isValid THEN <<Head(cs)>> \o validContacts(Tail(cs))
    ELSE validContacts(Tail(cs))

-----------------------------------------------------------------------------
(* The files the user can select.  nameCsv: the name ends in ".csv";         *)
(* typeCsv: the MIME type is text/csv; content: the decoded text.            *)

NoFile == 0

SEP == <<"bsl", "bsl", "n">>

\* header a,b and three data rows, lines ended by the separator the code splits on
TextRows ==
    <<"a", ",", "b">> \o SEP
    \o <<"x", ",", "1", "-", "2">> \o SEP
    \o <<"y", ",", "1","2","3","4","5","6","7","8","9","0","1","2","3">> \o SEP
    \o <<"z", ",", "1","1","9","9","9","9","9","8","8","8","8","1">> \o SEP

\* a header line with a single column
TextOneColumn == <<"a">> \o SEP

Files ==
    << [nameCsv |-> TRUE,  typeCsv |-> FALSE, content |-> TextRows],
       [nameCsv |-> FALSE, typeCsv |-> TRUE,  content |-> <<>>],
       [nameCsv |-> FALSE, typeCsv |-> FALSE, content |-> TextOneColumn] >>

FileIds == 1..Len(Files)

\* line 80: the test that rejects a file when it is true
invalidFormat(f) == ~Files[f].typeCsv /\ ~Files[f].nameCsv

\* the texts the user can type or paste into the direct-entry textarea
PasteTexts ==
    { <<"1","1","9","9","9","9","9","8","8","8","8", "lf", "1","2","3">>,
      <<"-">> }

\* const CHUNK_SIZE = 1024 * 1024 (line 97), scaled: one unit is one character
CHUNK_SIZE == 24

\* reads in flight at one time
MaxReaders == 1

Steps == {"upload", "map", "preview", "confirm"}

\* a handler run that raises no toast and does not call onComplete
Silent == [toast |-> "none", called |-> FALSE, args |-> <<>>]

Toast(title) == [toast |-> title, called |-> FALSE, args |-> <<>>]

AppInit ==
    /\ open = FALSE
    /\ file = NoFile
    /\ contacts = <<>>
    /\ nameColumn = <<>>
    /\ phoneColumn = <<>>
    /\ columns = <<>>
    /\ isProcessing = FALSE
    /\ previewData = <<>>
    /\ step = "upload"
    /\ inputValue = NoFile
    /\ tab = "upload"
    /\ readers = EmptyBag
    /\ out = Silent
    /\ batchSource = "none"

-----------------------------------------------------------------------------
(* Specifications of the pure functions: the input is drawn in the initial  *)
(* state and one step applies the function to it.                            *)

\* all sequences over S of length at most n
SeqUpTo(S, n) == UNION {[1..k -> S] : k \in 0..n}

RECURSIVE Join(_, _)
Join(parts, sep) ==
    IF parts = <<>> THEN <<>>
    ELSE IF Len(parts) = 1 THEN parts[1]
    ELSE parts[1] \o sep \o Join(Tail(parts), sep)

RECURSIVE Repeat(_, _)
Repeat(c, k) == IF k = 0 THEN <<>> ELSE <<c>> \o Repeat(c, k - 1)

HarnessIdle == hIn = <<>> /\ hOut = <<>> /\ hpc = "idle"

MaxLineLen == 4

DelimLines == SeqUpTo({",", ";", "tab", "a"}, MaxLineLen)

InitDelim == AppInit /\ hIn \in DelimLines /\ hOut = <<>> /\ hpc = "call"

ApplyDelim ==
    /\ hpc = "call"
    /\ hOut' = detectDelimiter(hIn)
    /\ hpc' = "done"
    /\ UNCHANGED <<hIn, appVars>>

SpecDelim == InitDelim /\ [][ApplyDelim]_vars

MaxHeaders == 2

HeaderPool ==
    { <<"N","o","m","e">>, <<"n","a","m","e">>, <<"C","L","I","E","N","T","E">>,
      <<"c","o","n","t","a","t","o">>, <<"x","n","o","m","e">>,
      <<"x","c","o","n","t","a","t","o">>, <<"sp","N","O","M","E","sp">>,
      <<"T","e","l","e","f","o","n","e">>, <<"t","E","L">>, <<"x","t","e","l">>,
      <<"p","h","o","n","e">>, <<"c","e","l","u","l","a","r","2">>,
      <<"W","h","a","t","s","A","p","p">>, <<"n","u","m","e","r","o">>,
      <<"n","u","m","b","e","r">>, <<"n","u","m","e","r","o","s">>,
      <<"i","d">>, <<>> }

InitGuess ==
    /\ AppInit
    /\ hIn \in SeqUpTo(HeaderPool, MaxHeaders) \ {<<>>}
    /\ hOut = <<>>
    /\ hpc = "call"

ApplyGuess ==
    /\ hpc = "call"
    /\ hOut' = [name |-> nameColumnIndex(hIn), phone |-> phoneColumnIndex(hIn)]
    /\ hpc' = "done"
    /\ UNCHANGED <<hIn, appVars>>

SpecGuess == InitGuess /\ [][ApplyGuess]_vars

MaxDigits == 13

PhoneFields ==
    { pre \o Repeat("1", k) \o suf :
        pre \in { <<>>, <<"5","5">>, <<"5">>, <<"(">> },
        k   \in 0..MaxDigits,
        suf \in { <<>>, <<"-","1">>, <<"bsl","D">> } }

InitPhone == AppInit /\ hIn \in PhoneFields /\ hOut = <<>> /\ hpc = "call"

\* the row <<name, phone field>> mapped with the name column 0 and the phone column 1
ApplyPhone ==
    /\ hpc = "call"
    /\ hOut' = mapRow(<< <<"n">>, hIn >>, 0, 1)
    /\ hpc' = "done"
    /\ UNCHANGED <<hIn, appVars>>

SpecPhone == InitPhone /\ [][ApplyPhone]_vars

MaxPasteLines == 2

PasteLinePool ==
    { <<>>, <<"sp">>, <<"a">>, <<"1","2","3">>, <<"5","5","1","2","3">>,
      <<"1","1","9","9","9","9","9","8">>,
      <<"5","5","9","9","9","9","9","9","8","8">>,
      <<"sp","1","1","9","9","9","-","9","9","8","8","8","8","cr">>,
      <<"(","1","1",")","9","9","9","9","8","8","8">>,
      <<"5","1","9","9","9","9","9","8","8","8">> }

InitDirect ==
    /\ AppInit
    /\ hIn \in {Join(ls, <<"lf">>) : ls \in SeqUpTo(PasteLinePool, MaxPasteLines)}
    /\ hOut = <<>>
    /\ hpc = "call"

ApplyDirect ==
    /\ hpc = "call"
    /\ hOut' = mapDirectInput(hIn)
    /\ hpc' = "done"
    /\ UNCHANGED <<hIn, appVars>>

SpecDirect == InitDirect /\ [][ApplyDirect]_vars

MaxDataLines == 3

DataLinePool ==
    { <<"x", ",", "1">>, <<"y", ",", "2">>, <<"z">>, <<"sp">>, <<>> }

LineEnds ==
    { <<"lf">>, <<"cr", "lf">>, <<"bsl", "bsl", "n">>, <<"bsl", "r", "bsl", "n">> }

\* the input is a header line a,b, the data lines and the line end joining them;
\* the mapping runs with the name column a and the phone column b
InitMap ==
    /\ AppInit
    /\ hIn \in [data : SeqUpTo(DataLinePool, MaxDataLines), eol : LineEnds]
    /\ hOut = <<>>
    /\ hpc = "call"

MapText(in) == Join(<< <<"a", ",", "b">> >> \o in.data, in.eol)

ApplyMap ==
    /\ hpc = "call"
    /\ hOut' = mapContacts(MapText(hIn), <<"a">>, <<"b">>)
    /\ hpc' = "done"
    /\ UNCHANGED <<hIn, appVars>>

SpecMap == InitMap /\ [][ApplyMap]_vars

-----------------------------------------------------------------------------
(* The component: event handlers and FileReader callbacks *)

Size(f) == Len(Files[f].content)

\* the reads in flight with one more read, and with one read completed
Started(rs, r) == rs (+) SetToBag({r})

Finished(rs, r) == rs (-) SetToBag({r})

\* a read of the whole of file f whose callbacks see cFile, cName and cPhone
Reader(kind, f, cFile, cName, cPhone) ==
    [kind |-> kind, blob |-> f, offset |-> 0, chunks |-> <<>>,
     from |-> 0, to |-> Size(f), cFile |-> cFile, cName |-> cName, cPhone |-> cPhone]

\* The results of the parse, of the mapping and of the direct-entry mapping on
\* the texts of this model, computed once; any other text is computed on demand.
knownTexts == {Files[f].content \o Files[f].content : f \in FileIds}

parseTable == [t \in knownTexts |-> parseCSV(t)]

parsed(csv) == IF csv \in knownTexts THEN parseTable[csv] ELSE parseCSV(csv)

knownColumns ==
    UNION {{parseTable[t].headers[k] : k \in 1..Len(parseTable[t].headers)} :
              t \in knownTexts}

mapTable ==
    [f \in FileIds, nc \in knownColumns, pc \in knownColumns |->
        mapContacts(Files[f].content, nc, pc)]

mapped(f, nc, pc) ==
    IF nc \in knownColumns /\ pc \in knownColumns
    THEN mapTable[f, nc, pc]
    ELSE mapContacts(Files[f].content, nc, pc)

directTable == [t \in PasteTexts |-> mapDirectInput(t)]

direct(text) == IF text \in PasteTexts THEN directTable[text] ELSE mapDirectInput(text)

\* the <input type=file> exists while the upload step of the upload tab is shown
\* (lines 370-384, 617-619); inputValue is NoFile whenever it does not exist
InputMounted == open /\ tab = "upload" /\ step = "upload"

\* validateAndMapContacts (lines 229-340) up to the start of the read, run in a
\* closure that holds cFile, cName and cPhone; rs is the reads in flight and
\* processing the value of isProcessing when it is called.  The result gives
\* the toast raised, isProcessing and the reads in flight afterwards.
validateAndMapContacts(cFile, cName, cPhone, rs, processing) ==
    IF Falsy(cName) \/ Falsy(cPhone)
    THEN [out |-> Toast("Selecao de colunas necessaria"),
          isProcessing |-> processing, readers |-> rs]
    ELSE IF cFile = NoFile
    THEN \* reader.readAsText(null) throws; caught at line 332
         [out |-> Toast("Erro ao processar arquivo"),
          isProcessing |-> FALSE, readers |-> rs]
    ELSE [out |-> Silent, isProcessing |-> TRUE,
          readers |-> Started(rs, Reader("validate", cFile, cFile, cName, cPhone))]

\* processCSV (lines 93-211): the reader is created and the whole file is read
processCSV(f) ==
    /\ isProcessing' = TRUE
    /\ readers' = Started(readers, Reader("process", f, file, nameColumn, phoneColumn))

\* handleFileChange (lines 73-91)
handleFileChange(f) ==
    /\ InputMounted
    /\ ~isProcessing
    /\ f # inputValue
    /\ inputValue' = f
    /\ file' = f
    /\ IF invalidFormat(f)
       THEN /\ out' = Toast("Formato invalido")
            /\ UNCHANGED <<isProcessing, readers>>
       ELSE /\ BagCardinality(readers) < MaxReaders
            /\ processCSV(f)
            /\ out' = Silent
    /\ UNCHANGED <<open, contacts, nameColumn, phoneColumn, columns, previewData,
                   step, tab, batchSource, harnessVars>>

\* the text a read of the characters from..to of the file delivers
ReadResult(r) == SubSeq(Files[r.blob].content, r.from + 1, r.to)

\* reader.onload of processCSV (lines 103-199)
ProcessOnLoad(r) ==
    /\ BagIn(r, readers)
    /\ r.kind = "process"
    /\ LET chunks == r.chunks \o ReadResult(r)
       IN  IF r.offset < Size(r.blob)
           THEN \* lines 107-112: the next slice is read
                /\ readers' = Started(Finished(readers, r),
                       [r EXCEPT !.chunks = chunks,
                                 !.from = r.offset,
                                 !.to = IF r.offset + CHUNK_SIZE < Size(r.blob)
                                        THEN r.offset + CHUNK_SIZE ELSE Size(r.blob),
                                 !.offset = r.offset + CHUNK_SIZE])
                /\ out' = Silent
                /\ UNCHANGED <<nameColumn, phoneColumn, columns, previewData,
                               isProcessing>>
           ELSE LET res == parsed(chunks)
                IN  IF ~res.ok
                    THEN /\ isProcessing' = FALSE
                         /\ out' = Toast("Erro ao processar arquivo")
                         /\ readers' = Finished(readers, r)
                         /\ UNCHANGED <<nameColumn, phoneColumn, columns, previewData>>
                    ELSE LET v == validateAndMapContacts(r.cFile, r.cName, r.cPhone,
                                                         Finished(readers, r), FALSE)
                         IN  /\ nameColumn' = res.nameColumn
                             /\ phoneColumn' = res.phoneColumn
                             /\ columns' = res.headers
                             /\ previewData' = res.preview
                             /\ isProcessing' = v.isProcessing
                             /\ out' = v.out
                             /\ readers' = v.readers
    /\ UNCHANGED <<open, file, contacts, step, inputValue, tab, batchSource,
                   harnessVars>>

\* a read error that raises the toast and leaves isProcessing as it is
ReadOnErrorStillBusy(r) ==
    /\ BagIn(r, readers)
    /\ readers' = Finished(readers, r)
    /\ out' = Toast("Erro ao ler arquivo")
    /\ UNCHANGED <<open, file, contacts, nameColumn, phoneColumn, columns,
                   isProcessing, previewData, step, inputValue, tab, batchSource,
                   harnessVars>>

\* reader.onerror of processCSV (lines 201-208) and of validateAndMapContacts
\* (lines 321-328)
ReadOnError(r) ==
    /\ BagIn(r, readers)
    /\ readers' = Finished(readers, r)
    /\ isProcessing' = FALSE
    /\ out' = Toast("Erro ao ler arquivo")
    /\ UNCHANGED <<open, file, contacts, nameColumn, phoneColumn, columns,
                   previewData, step, inputValue, tab, batchSource, harnessVars>>

\* reader.onload of validateAndMapContacts (lines 244-319)
ValidateOnLoad(r) ==
    /\ BagIn(r, readers)
    /\ r.kind = "validate"
    /\ LET res == mapped(r.blob, r.cName, r.cPhone)
       IN  /\ readers' = Finished(readers, r)
           /\ isProcessing' = FALSE
           /\ IF res.ok
              THEN /\ contacts' = res.contacts
                   /\ step' = "preview"
                   /\ batchSource' = "file"
                   /\ inputValue' = NoFile
                   /\ out' = Silent
              ELSE /\ out' = Toast("Erro ao processar contatos")
                   /\ UNCHANGED <<contacts, step, batchSource, inputValue>>
    /\ UNCHANGED <<open, file, nameColumn, phoneColumn, columns, previewData, tab,
                   harnessVars>>

\* the Continuar button of the map step (lines 561-566)
Continue ==
    /\ open
    /\ step = "map"
    /\ ~(Falsy(nameColumn) \/ Falsy(phoneColumn) \/ isProcessing)
    /\ BagCardinality(readers) < MaxReaders
    /\ LET v == validateAndMapContacts(file, nameColumn, phoneColumn, readers,
                                       isProcessing)
       IN  /\ isProcessing' = v.isProcessing
           /\ out' = v.out
           /\ readers' = v.readers
    /\ UNCHANGED <<open, file, contacts, nameColumn, phoneColumn, columns,
                   previewData, step, inputValue, tab, batchSource, harnessVars>>

\* the two Select controls of the map step (lines 431, 447)
SetNameColumn(c) ==
    /\ open /\ tab = "upload" /\ step = "map"
    /\ \E k \in 1..Len(columns) : columns[k] = c
    /\ nameColumn' = c
    /\ out' = Silent
    /\ UNCHANGED <<open, file, contacts, phoneColumn, columns, isProcessing,
                   previewData, step, inputValue, tab, readers, batchSource,
                   harnessVars>>

SetPhoneColumn(c) ==
    /\ open /\ tab = "upload" /\ step = "map"
    /\ \E k \in 1..Len(columns) : columns[k] = c
    /\ phoneColumn' = c
    /\ out' = Silent
    /\ UNCHANGED <<open, file, contacts, nameColumn, columns, isProcessing,
                   previewData, step, inputValue, tab, readers, batchSource,
                   harnessVars>>

\* the Voltar buttons (lines 558, 573)
BackToUpload ==
    /\ open /\ step = "map"
    /\ step' = "upload"
    /\ out' = Silent
    /\ UNCHANGED <<open, file, contacts, nameColumn, phoneColumn, columns,
                   isProcessing, previewData, inputValue, tab, readers,
                   batchSource, harnessVars>>

BackToMap ==
    /\ open /\ step = "preview"
    /\ step' = "map"
    /\ out' = Silent
    /\ UNCHANGED <<open, file, contacts, nameColumn, phoneColumn, columns,
                   isProcessing, previewData, inputValue, tab, readers,
                   batchSource, harnessVars>>

\* resetState (lines 59-71)
resetState ==
    /\ file' = NoFile
    /\ contacts' = <<>>
    /\ nameColumn' = <<>>
    /\ phoneColumn' = <<>>
    /\ columns' = <<>>
    /\ previewData' = <<>>
    /\ step' = "upload"
    /\ isProcessing' = FALSE
    /\ inputValue' = NoFile
    /\ batchSource' = "none"

\* handleConfirm (lines 342-366), from the Importar Contatos button (lines 576-581)
handleConfirm ==
    /\ open /\ step = "preview"
    /\ Len(validContacts(contacts)) # 0
    /\ out' = [toast |-> "Importacao concluida", called |-> TRUE,
               args |-> validContacts(contacts)]
    /\ resetState
    /\ open' = FALSE
    /\ tab' = "upload"
    /\ UNCHANGED <<readers, harnessVars>>

\* the textarea of the direct-entry tab (lines 630-646)
DirectInput(text) ==
    /\ open /\ tab = "direct"
    /\ contacts' = direct(text)
    /\ batchSource' = "paste"
    /\ step' = IF Len(direct(text)) > 0 THEN "preview" ELSE step
    /\ out' = Silent
    /\ UNCHANGED <<open, file, nameColumn, phoneColumn, columns, isProcessing,
                   previewData, inputValue, tab, readers, harnessVars>>

\* the Enviar Mensagem button of the direct-entry tab (lines 648-661)
DirectSend ==
    /\ open /\ tab = "direct"
    /\ Len(validContacts(contacts)) # 0
    /\ out' = [toast |-> "none", called |-> TRUE, args |-> validContacts(contacts)]
    /\ open' = FALSE
    /\ resetState
    /\ tab' = "upload"
    /\ UNCHANGED <<readers, harnessVars>>

\* Dialog onOpenChange (lines 591-596)
OpenDialog ==
    /\ ~open
    /\ open' = TRUE
    /\ out' = Silent
    /\ UNCHANGED <<file, contacts, nameColumn, phoneColumn, columns, isProcessing,
                   previewData, step, inputValue, tab, readers, batchSource,
                   harnessVars>>

DismissDialog ==
    /\ open
    /\ resetState
    /\ open' = FALSE
    /\ tab' = "upload"
    /\ out' = Silent
    /\ UNCHANGED <<readers, harnessVars>>

\* the Cancelar button of the upload step (lines 550-552)
Cancel ==
    /\ open /\ step = "upload"
    /\ open' = FALSE
    /\ tab' = "upload"
    /\ inputValue' = NoFile
    /\ out' = Silent
    /\ UNCHANGED <<file, contacts, nameColumn, phoneColumn, columns, isProcessing,
                   previewData, step, readers, batchSource, harnessVars>>

\* the tab triggers (lines 613-614)
SwitchTab ==
    /\ open
    /\ tab' = IF tab = "upload" THEN "direct" ELSE "upload"
    /\ inputValue' = NoFile
    /\ out' = Silent
    /\ UNCHANGED <<open, file, contacts, nameColumn, phoneColumn, columns,
                   isProcessing, previewData, step, readers, batchSource,
                   harnessVars>>

Init == AppInit /\ HarnessIdle

Next ==
    \/ OpenDialog
    \/ DismissDialog
    \/ Cancel
    \/ SwitchTab
    \/ \E f \in FileIds : handleFileChange(f)
    \/ \E r \in BagToSet(readers) : ProcessOnLoad(r)
    \/ \E r \in BagToSet(readers) : ValidateOnLoad(r)
    \/ \E r \in BagToSet(readers) : ReadOnError(r)
    \/ Continue
    \/ \E c \in {columns[k] : k \in 1..Len(columns)} : SetNameColumn(c)
    \/ \E c \in {columns[k] : k \in 1..Len(columns)} : SetPhoneColumn(c)
    \/ BackToUpload
    \/ BackToMap
    \/ handleConfirm
    \/ \E text \in PasteTexts : DirectInput(text)
    \/ DirectSend

Spec == Init /\ [][Next]_vars

-----------------------------------------------------------------------------
(* Claims *)

IsDigits(s) == \A k \in 1..Len(s) : s[k] \in Digits

Range(seq) == {seq[k] : k \in 1..Len(seq)}

OnlyValid(cs) == SelectSeq(cs, LAMBDA c : c.isValid)

\* C1: every onComplete call, from handleConfirm or from the direct-entry send
\* button, receives a non-empty sequence that is exactly the records of the
\* current contacts batch whose isValid is true, in batch order.
C1_OnCompleteGetsValidBatch ==
    [][out'.called =>
          /\ out'.args # <<>>
          /\ out'.args = OnlyValid(contacts)
          /\ \A k \in 1..Len(out'.args) : out'.args[k].isValid]_vars

\* handleConfirm forwarded the rows y and z of a file batch whose row x is invalid
C1_Witness ==
    /\ out.called
    /\ out.toast = "Importacao concluida"
    /\ Len(out.args) = 2
    /\ out.args[1].name = <<"y">>
    /\ out.args[2].name = <<"z">>

\* C2: no file read is ever started on a file whose MIME type is not text/csv
\* and whose name does not end in .csv.
C2_NoReadOfRejectedFile ==
    \A r \in BagToSet(readers) : ~(~Files[r.blob].typeCsv /\ ~Files[r.blob].nameCsv)

\* C3: in every reachable state every record of the contacts batch has a
\* phoneNumber made only of ASCII digits.
C3_PhoneNumbersAreDigits ==
    \A k \in 1..Len(contacts) : IsDigits(contacts[k].phoneNumber)

\* C4: for a mapped data row, with d the phone field with every non-digit
\* removed, phoneNumber is '55' followed by d when d has at most 12 digits and
\* does not start with '55', and d otherwise; isValid is true exactly when the
\* final phoneNumber has at least 12 digits.
C4_FilePhoneNormalised ==
    hpc = "done" =>
        LET d == SelectSeq(hIn, LAMBDA c : c \in Digits)
            expected == IF Len(d) <= 12 /\ ~startsWith(d, <<"5", "5">>)
                        THEN <<"5", "5">> \o d ELSE d
        IN  /\ hOut.phoneNumber = expected
            /\ hOut.isValid <=> (Len(expected) >= 12)

\* C5 as stated: every record with isValid = true has a phoneNumber that begins
\* with '55'.
C5_ValidBeginsWith55 ==
    \A k \in 1..Len(contacts) :
        contacts[k].isValid => startsWith(contacts[k].phoneNumber, <<"5", "5">>)

\* C5 as amended: a valid record's phoneNumber begins with '55', except that a
\* record mapped from a file whose phone field has more than 12 characters
\* keeps that field unchanged; every forwarded record begins with '55' or is
\* longer than 12 characters.
C5_ValidBeginsWith55OrLong ==
    /\ \A k \in 1..Len(contacts) :
          contacts[k].isValid =>
              \/ startsWith(contacts[k].phoneNumber, <<"5", "5">>)
              \/ batchSource = "file" /\ Len(contacts[k].phoneNumber) > 12
    /\ out.called =>
          \A k \in 1..Len(out.args) :
              \/ startsWith(out.args[k].phoneNumber, <<"5", "5">>)
              \/ Len(out.args[k].phoneNumber) > 12

\* a file batch holds a valid record without the prefix and one with it
C5_Witness ==
    /\ batchSource = "file"
    /\ \E k \in 1..Len(contacts) :
          contacts[k].isValid /\ ~startsWith(contacts[k].phoneNumber, <<"5", "5">>)
    /\ \E k \in 1..Len(contacts) :
          contacts[k].isValid /\ startsWith(contacts[k].phoneNumber, <<"5", "5">>)

PasteLines(text) == split(text, <<"lf">>)

\* the records the direct-entry path is said to build from the lines kept
DirectRecords(lines, validOn(_, _)) ==
    [k \in 1..Len(lines) |->
        LET d == SelectSeq(lines[k], LAMBDA c : c \in Digits)
            p == IF startsWith(d, <<"5", "5">>) THEN d ELSE <<"5", "5">> \o d
        IN  [name |-> d, phoneNumber |-> p, isValid |-> validOn(d, p)]]

\* C6 as stated: every non-empty trimmed line of the pasted text yields one
\* record, in line order: name is the line's digit string, phoneNumber is it
\* with '55' prepended unless it starts with '55', and isValid is true exactly
\* when the number has at least 10 digits after prefixing.
C6_DirectAsStated ==
    hpc = "done" =>
        hOut = DirectRecords(
                   SelectSeq(PasteLines(hIn), LAMBDA l : Len(trim(l)) > 0),
                   LAMBDA d, p : Len(p) >= 10)

\* C6 as amended: every line of the pasted text that holds at least one digit
\* yields one record, in line order (a line without a digit yields none): name
\* is the line's digit string, phoneNumber is it with '55' prepended unless it
\* starts with '55', and isValid is true exactly when the digit string has at
\* least 10 digits before prefixing.
C6_DirectAmended ==
    hpc = "done" =>
        hOut = DirectRecords(
                   SelectSeq(PasteLines(hIn),
                             LAMBDA l : \E k \in 1..Len(l) : l[k] \in Digits),
                   LAMBDA d, p : Len(d) >= 10)

\* the lines "a" and "11999998": the first yields nothing, the second a record
\* of 10 digits after prefixing that is not valid
C6_Witness ==
    /\ hpc = "done"
    /\ hIn = <<"a", "lf", "1","1","9","9","9","9","9","8">>
    /\ Len(hOut) = 1
    /\ Len(hOut[1].phoneNumber) = 10
    /\ ~hOut[1].isValid

CountOf(line, c) == Cardinality({k \in 1..Len(line) : line[k] = c})

\* C7: detectDelimiter returns the one of comma, semicolon and the tab
\* character that occurs most often in the header line, and comma when the
\* highest count is tied or no candidate occurs.
C7_MostFrequentDelimiter ==
    hpc = "done" =>
        LET best == {c \in {",", ";", "tab"} :
                        \A d \in {",", ";", "tab"} : CountOf(hIn, c) >= CountOf(hIn, d)}
        IN  IF Cardinality(best) = 1
            THEN hOut = <<CHOOSE c \in best : TRUE>>
            ELSE hOut = <<",">>

\* C8: for a header line followed by data lines separated by \n or \r\n the
\* mapping yields one record for each non-blank data line with enough fields,
\* in line order, and the same batch for both line endings.
C8_OneRecordPerDataLine ==
    (hpc = "done" /\ hIn.eol \in {<<"lf">>, <<"cr", "lf">>}) =>
        LET good == SelectSeq(hIn.data,
                        LAMBDA l : Len(trim(l)) > 0 /\ Len(split(l, <<",">>)) >= 2)
        IN  /\ hOut.ok
            /\ Len(hOut.contacts) = Len(good)
            /\ \A k \in 1..Len(good) :
                  hOut.contacts[k].name = trim(split(good[k], <<",">>)[1])
            /\ hOut = mapContacts(MapText([hIn EXCEPT !.eol = <<"lf">>]),
                                  <<"a">>, <<"b">>)

\* the first header, in order, whose lower-cased trimmed text is one of the
\* labels exact or contains one of the labels part; -1 when there is none
FirstLabelled(headers, exact, part) ==
    LET hit == {k \in 1..Len(headers) :
                   \/ trim(toLowerCase(headers[k])) \in exact
                   \/ \E l \in part : includes(trim(toLowerCase(headers[k])), l)}
    IN  IF hit = {} THEN -1 ELSE (CHOOSE k \in hit : \A j \in hit : k <= j) - 1

NameLabels == {L_nome, L_name, L_cliente, L_contato}

PhoneLabels == {L_telefone, L_phone, L_celular, L_whatsapp, L_numero, L_number, L_tel}

\* C9 as stated: the detected name (phone) column is the first header whose
\* lower-cased trimmed text equals or contains any of the name (phone) labels.
C9_FirstEqualOrContainingAny ==
    hpc = "done" =>
        /\ hOut.name = FirstLabelled(hIn, NameLabels, NameLabels)
        /\ hOut.phone = FirstLabelled(hIn, PhoneLabels, PhoneLabels)

\* C9 as amended: the detected name column is the first header whose
\* lower-cased trimmed text equals nome, name, cliente or contato or contains
\* nome or name; the detected phone column is the first that equals telefone,
\* phone, celular, whatsapp, numero, number or tel or contains telefone, phone,
\* celular or whatsapp.
C9_FirstEqualOrContainingSome ==
    hpc = "done" =>
        /\ hOut.name = FirstLabelled(hIn, NameLabels, {L_nome, L_name})
        /\ hOut.phone = FirstLabelled(hIn, PhoneLabels,
                                      {L_telefone, L_phone, L_celular, L_whatsapp})

\* the header xtel is passed over and tEL, after it, is the phone column
C9_Witness ==
    /\ hpc = "done"
    /\ hIn = << <<"x","t","e","l">>, <<"t","E","L">> >>
    /\ hOut.phone = 1
    /\ hOut.name = -1

\* the headers of a file text, as the mapping reads them
HeadersOf(text) ==
    LET lines == nonEmptyLines(text)
    IN  IF lines = <<>> THEN <<>>
        ELSE cleanCells(split(lines[1], detectDelimiter(lines[1])))

FileHeaders == [f \in FileIds |-> Range(HeadersOf(Files[f].content))]

ColumnAbsent(r) ==
    \/ r.cName \notin FileHeaders[r.blob]
    \/ r.cPhone \notin FileHeaders[r.blob]

\* C10: when the mapping runs with a name or phone column that is not among
\* the headers of the file it reads, it ends with a notification and leaves
\* the contacts batch and the step as they were; starting the read changes
\* neither.
C10_ColumnNotFoundNoOutput ==
    [][\A r \in BagToSet(readers) :
          (r.kind = "validate" /\ ColumnAbsent(r)) =>
              /\ (readers' = Finished(readers, r) /\ out'.toast # "Erro ao ler arquivo")
                    => /\ contacts' = contacts
                       /\ step' = step
                       /\ out'.toast = "Erro ao processar contatos"
                       /\ ~isProcessing'
              /\ (~BagIn(r, readers) /\ BagIn(r, readers'))
                    => contacts' = contacts /\ step' = step]_vars

\* the mapping of the one-column file with the phone column b has failed and
\* the pasted batch and the map step are still there
C10_Witness ==
    /\ out.toast = "Erro ao processar contatos"
    /\ file = 3
    /\ phoneColumn = <<"b">>
    /\ step = "map"
    /\ batchSource = "paste"
    /\ contacts # <<>>

\* C11: a data row with fewer fields than both mapped column indices need is
\* skipped without an error: the mapping succeeds, the row gives no record and
\* every other non-blank row of the text gives its record, in line order.
C11_ShortRowSkipped ==
    (hpc = "done" /\ hIn.eol \in {<<"bsl", "bsl", "n">>, <<"bsl", "r", "bsl", "n">>}) =>
        LET good == SelectSeq(hIn.data,
                        LAMBDA l : Len(trim(l)) > 0 /\ Len(split(l, <<",">>)) >= 2)
        IN  /\ hOut.ok
            /\ Len(hOut.contacts) = Len(good)
            /\ \A k \in 1..Len(good) :
                  hOut.contacts[k] = mapRow(cleanCells(split(good[k], <<",">>)), 0, 1)

\* the one-field row z between the rows x and y is skipped and x and y are mapped
C11_Witness ==
    /\ hpc = "done"
    /\ hIn = [data |-> << <<"x", ",", "1">>, <<"z">>, <<"y", ",", "2">> >>,
              eol |-> <<"bsl", "bsl", "n">>]
    /\ hOut.ok
    /\ Len(hOut.contacts) = 2
    /\ hOut.contacts[1].name = <<"x">>
    /\ hOut.contacts[2].name = <<"y">>

FailureTitles ==
    {"Formato invalido", "Erro ao processar arquivo", "Erro ao ler arquivo",
     "Erro ao processar contatos", "Selecao de colunas necessaria"}

\* C12: every failure path ends with a notification and with isProcessing
\* false: the selection of a file of invalid format starts no read and raises
\* the notification; every read that ends, other than a mapping whose columns
\* are both among the headers of its file, raises a notification, leaves
\* isProcessing false and leaves the batch and the step as they were.
C12_FailureNotifies ==
    [][/\ (inputValue' # inputValue /\ inputValue' # NoFile
              /\ ~Files[inputValue'].typeCsv /\ ~Files[inputValue'].nameCsv)
          => /\ out'.toast = "Formato invalido"
             /\ ~isProcessing'
             /\ readers' = readers
       /\ \A r \in BagToSet(readers) :
             (readers' = Finished(readers, r)
                 /\ ~(r.kind = "validate" /\ ~ColumnAbsent(r)))
             => /\ out'.toast \in FailureTitles
                /\ ~out'.called
                /\ ~isProcessing'
                /\ contacts' = contacts
                /\ step' = step]_vars

\* the parse of the empty file, selected first in the dialog, has failed
C12_Witness ==
    /\ out.toast = "Erro ao processar arquivo"
    /\ file = 2
    /\ Files[file].content = <<>>
    /\ columns = <<>>
    /\ ~isProcessing
    /\ readers = EmptyBag

\* C13: whenever the dialog goes from open to closed, all transient import
\* state is reset: contacts, columns and previewData are empty, nameColumn and
\* phoneColumn are empty, file is null, step is 'upload' and isProcessing is
\* false.
C13_CloseResets ==
    [][(open /\ ~open') =>
          /\ contacts' = <<>>
          /\ columns' = <<>>
          /\ previewData' = <<>>
          /\ nameColumn' = <<>>
          /\ phoneColumn' = <<>>
          /\ file' = NoFile
          /\ step' = "upload"
          /\ ~isProcessing']_vars

ResetValues ==
    /\ contacts = <<>>
    /\ columns = <<>>
    /\ previewData = <<>>
    /\ nameColumn = <<>>
    /\ phoneColumn = <<>>
    /\ step = "upload"
    /\ ~isProcessing

\* C14: when the dialog has been closed and the state reset while a file read
\* is in flight, the completion of that read has no effect: contacts, columns,
\* previewData, nameColumn, phoneColumn, step and isProcessing keep their
\* reset values for as long as the dialog stays closed.
C14_LateReadIgnored ==
    [][(~open /\ ~open' /\ ResetValues /\ readers # EmptyBag) => ResetValues']_vars

\* C15: at most one import action is in progress at any time: while a file
\* read is in flight no step starts one more file read and no step creates a
\* batch from pasted text.
C15_OneImportAtATime ==
    [][readers # EmptyBag =>
          /\ BagCardinality(readers') <= BagCardinality(readers)
          /\ ~(batchSource' = "paste"
                  /\ (batchSource # "paste" \/ contacts' # contacts))]_vars

\* C16: a mapping started by a file selection is built from that selection:
\* when the parse of a selected file starts the mapping, the mapping reads the
\* file just parsed, with the name and phone columns the parse selected for it.
C16_MappingOfSelectedFile ==
    [][\A r \in BagToSet(readers) : \A v \in BagToSet(readers') :
          (r.kind = "process" /\ v.kind = "validate"
              /\ readers' = Started(Finished(readers, r), v))
          => /\ v.blob = r.blob
             /\ v.cName = nameColumn'
             /\ v.cPhone = phoneColumn']_vars

\* C17: in every reachable state, step = 'map' or step = 'preview' implies
\* that columns are the headers of a successfully parsed file and that
\* nameColumn and phoneColumn are both non-empty.
C17_StepNeedsParsedColumns ==
    step \in {"map", "preview"} =>
        /\ columns # <<>>
        /\ \E f \in FileIds : Range(columns) = FileHeaders[f]
        /\ nameColumn # <<>> /\ nameColumn # UNDEF
        /\ phoneColumn # <<>> /\ phoneColumn # UNDEF

\* C18: the text processCSV assembles is the file's content, each range once
\* and in offset order: for every read of processCSV in flight, the chunks
\* pushed so far followed by the text this read delivers are the file's content
\* up to the end of the range being read, and for the last read they are the
\* complete content, which is the text parsed.
C18_ChunksAreTheContent ==
    \A r \in BagToSet(readers) :
        r.kind = "process" =>
            /\ r.chunks \o SubSeq(Files[r.blob].content, r.from + 1, r.to)
                  = SubSeq(Files[r.blob].content, 1, r.to)
            /\ r.offset >= Len(Files[r.blob].content) =>
                  r.chunks \o SubSeq(Files[r.blob].content, r.from + 1, r.to)
                      = Files[r.blob].content

\* the column the parse selects: the recognised header, otherwise the header
\* at position fallback
AutoColumn(headers, exact, part, fallback) ==
    LET k == FirstLabelled(headers, exact, part)
    IN  IF k = -1 THEN At(headers, fallback) ELSE At(headers, k)

FreshDialog ==
    /\ open /\ step = "upload"
    /\ contacts = <<>> /\ columns = <<>> /\ previewData = <<>>
    /\ nameColumn = <<>> /\ phoneColumn = <<>>

\* the columns are those the parse of the file read by r selects
ColumnsSelected(r) ==
    LET headers == HeadersOf(Files[r.blob].content)
    IN  /\ columns' = headers
        /\ nameColumn' = AutoColumn(headers, NameLabels, {L_nome, L_name}, 0)
        /\ phoneColumn' = AutoColumn(headers, PhoneLabels,
                              {L_telefone, L_phone, L_celular, L_whatsapp}, 1)

\* C19: when the last read of a file with a header line, selected in a freshly
\* opened dialog, completes without error, the name and phone columns are
\* selected automatically and the mapping of that file starts at once, with
\* no further user action, so that its completion leads to step = 'preview'.
C19_ParseGoesOnToMapping ==
    [][\A r \in BagToSet(readers) :
          (FreshDialog /\ r.kind = "process"
              /\ r.offset >= Len(Files[r.blob].content)
              /\ HeadersOf(Files[r.blob].content) # <<>>
              /\ readers' # readers
              /\ out'.toast # "Erro ao ler arquivo")
          => /\ ColumnsSelected(r)
             /\ \E v \in BagToSet(readers') :
                   /\ v.kind = "validate"
                   /\ v.blob = r.blob
                   /\ v.cName = nameColumn'
                   /\ v.cPhone = phoneColumn']_vars

====
